---- MODULE Spec2Model ----
(***************************************************************************)
(* Clinic scheduling: the appointments collection of the data store, the   *)
(* nurse forms (create, edit, cancel) with their 30-minute conflict check, *)
(* and the doctor dashboard (fetched queue, start, complete, no-show).     *)
(***************************************************************************)
EXTENDS Integers, Sequences, FiniteSets, TLC

\* ------------------------------------------------------------------ bounds
\* Most rows the appointments collection holds in a run.
MaxAppts == 2
\* Most writes published to the dashboards' subscriptions in a run.
MaxWrites == 2
\* Most rows the patients collection holds in a run.
MaxPatients == 1

\* ------------------------------------------------------- program constants
\* `timeDifference < 30` in both checkTimeConflict functions.
ConflictWindow == 30
\* `.slice(0, 5)` in organizeAppointments.
QueueLimit == 5

\* ----------------------------------------------------------- small domains
Doctors == {1, 2}
Dates == {1, 2}
\* A time of day as the fields of "HH:MM" (what time.split(':') yields).
Times == {<<8, 50>>, <<9, 0>>, <<9, 15>>, <<9, 20>>, <<9, 35>>, <<9, 50>>}
\* The times and dates the nurse forms are filled with: at the booking desk
\* (Spec), and with the doctor dashboard beside it (SpecAtomic).
FormTimes == {<<9, 0>>, <<9, 20>>, <<9, 50>>}
FormDates == {1}
ClinicTimes == {<<9, 0>>, <<9, 30>>}
Nurses == {1, 2}
\* The nurse sessions that open the details modal and the edit form.
Editors == {1}
\* The data-store call of a handler that returns an error, if any.
CreateFailures == {"none", "patient", "query", "insert"}
SubmitFailures == {"none", "patient", "query"}
EditFailures == {"none", "query", "update"}
\* With the doctor dashboard beside them (SpecAtomic) the forms book existing
\* patients, and the call that may fail is the write.
ExistingPatient == {FALSE}
WriteFailures == {"none", "insert", "update"}

\* The two dashboards of the application.
Dashboards == {"nurse", "doctor"}
\* The authenticated users of the data store.
Users == {"nurse1", "doctor1", "doctor2"}
\* The nurse dashboard's doctor filter set to 'all'.
AllDoctors == 0
\* The doctors' full names, and the name of the patient of each appointment.
DoctorName(d) == IF d = 1 THEN <<"A", "n">> ELSE <<"B", "o">>
PatientName(id) == IF id = 1 THEN <<"E", "d">> ELSE <<"A", "l">>
\* What the nurse types into the search box.
Queries == {<<>>, <<"a">>, <<"N">>, <<"d">>, <<"z">>}

AppointmentStatus == {"scheduled", "in_consultation", "completed", "cancelled", "no_show"}

Appointment == [doctor_id : Doctors, appointment_date : Dates,
                appointment_time : Times, status : AppointmentStatus]

\* ------------------------------------------------------------------- state
VARIABLES
    appointments,    \* the store's appointments collection; a row's id is its index
    checked,         \* the last stand-alone call of a conflict checker and its result
    pc,              \* per nurse session: where its form's handleSubmit stands
    pending,         \* per nurse session: the write its handleSubmit issues next
    toast,           \* the notification shown last
    userProfile,     \* doctor dashboard: the logged-in doctor's profile
    dashAppointments,\* doctor dashboard: the fetched `appointments` list
    selectedDate,    \* doctor dashboard: the selected date
    nurseAppointments,\* nurse dashboard: the fetched `appointments` list
    mounted,         \* per dashboard: whether its component is mounted
    channels,        \* the change-notification subscriptions registered
    notices,         \* the subscriptions holding an undelivered notification
    inflight,        \* per dashboard: query results not yet handed to setAppointments
    writes,          \* the writes published to the subscriptions so far
    patients,        \* the number of rows of the patients collection
    doctors,         \* the doctors collection
    profiles,        \* user_profiles: per authenticated user, position and doctor_id
    request,         \* the last statement sent straight to the data store, and its outcome
    webhook,         \* the last answer of the reschedule webhook
    selectedAppointment, \* per nurse session: the list row the modal and the edit form show
    editForm,        \* per nurse session: the edit form's selectedDoctor, date, time, status
    isSubmitting,    \* per nurse session: isSubmitting of the create and of the edit form
    showCreateForm,  \* per nurse session: the create dialog is open
    showEditForm     \* per nurse session: the edit dialog is open

\* The dashboards' live state, and the collections beside appointments.
syncVars == <<nurseAppointments, mounted, channels, notices, inflight, writes>>
dbVars == <<patients, doctors, profiles, request>>
\* The nurse dashboard's dialogs and the state of its forms.
uiVars == <<webhook, selectedAppointment, editForm, isSubmitting, showCreateForm, showEditForm>>
dialogVars == <<webhook, selectedAppointment, editForm, showCreateForm, showEditForm>>

vars == <<appointments, checked, pc, pending, toast, userProfile, dashAppointments,
          selectedDate, syncVars, dbVars, uiVars>>

\* ------------------------------------------------------- conflict checker
Abs(x) == IF x < 0 THEN -x ELSE x

\* timeToMinutes: hours * 60 + minutes of the split time string.
timeToMinutes(time) == time[1] * 60 + time[2]

Ids(store) == 1..Len(store)

\* The rows the create form's query returns: .eq doctor_id, .eq appointment_date,
\* .in status [scheduled, in_consultation]; as the sequence of their times.
RECURSIVE CreateQuery(_, _, _, _)
CreateQuery(store, i, doctorId, appointmentDate) ==
    IF i > Len(store) THEN <<>>
    ELSE LET apt == store[i]
             rest == CreateQuery(store, i + 1, doctorId, appointmentDate)
         IN IF /\ apt.doctor_id = doctorId
               /\ apt.appointment_date = appointmentDate
               /\ apt.status \in {"scheduled", "in_consultation"}
            THEN <<apt.appointment_time>> \o rest
            ELSE rest

\* EditQuery without the .neq('id', ...) filter.
EditQuery_NoNeq(store, i, doctorId, appointmentDate, currentAppointmentId) ==
    CreateQuery(store, i, doctorId, appointmentDate)

\* The edit form's query: the same, and .neq id currentAppointmentId.
RECURSIVE EditQuery(_, _, _, _, _)
EditQuery(store, i, doctorId, appointmentDate, currentAppointmentId) ==
    IF i > Len(store) THEN <<>>
    ELSE LET apt == store[i]
             rest == EditQuery(store, i + 1, doctorId, appointmentDate, currentAppointmentId)
         IN IF /\ apt.doctor_id = doctorId
               /\ apt.appointment_date = appointmentDate
               /\ apt.status \in {"scheduled", "in_consultation"}
               /\ i # currentAppointmentId
            THEN <<apt.appointment_time>> \o rest
            ELSE rest

\* ConflictLoop with `timeDifference <= 30`.
RECURSIVE ConflictLoop_Inclusive(_, _)
ConflictLoop_Inclusive(existingAppointments, newTimeInMinutes) ==
    IF existingAppointments = <<>> THEN FALSE
    ELSE IF Abs(newTimeInMinutes - timeToMinutes(Head(existingAppointments))) <= ConflictWindow
         THEN TRUE
         ELSE ConflictLoop_Inclusive(Tail(existingAppointments), newTimeInMinutes)

\* ConflictLoop that returns after comparing with the first row only.
ConflictLoop_FirstOnly(existingAppointments, newTimeInMinutes) ==
    IF existingAppointments = <<>> THEN FALSE
    ELSE Abs(newTimeInMinutes - timeToMinutes(Head(existingAppointments))) < ConflictWindow

\* The loop over existingAppointments: true at the first time less than 30
\* minutes from the candidate, false when the list is exhausted (or empty).
RECURSIVE ConflictLoop(_, _)
ConflictLoop(existingAppointments, newTimeInMinutes) ==
    IF existingAppointments = <<>> THEN FALSE
    ELSE LET existingTimeInMinutes == timeToMinutes(Head(existingAppointments))
             timeDifference == Abs(newTimeInMinutes - existingTimeInMinutes)
         IN IF timeDifference < ConflictWindow THEN TRUE
            ELSE ConflictLoop(Tail(existingAppointments), newTimeInMinutes)

checkTimeConflictCreate(store, doctorId, appointmentDate, appointmentTime) ==
    ConflictLoop(CreateQuery(store, 1, doctorId, appointmentDate),
                 timeToMinutes(appointmentTime))

checkTimeConflictEdit(store, doctorId, appointmentDate, appointmentTime, currentAppointmentId) ==
    ConflictLoop(EditQuery(store, 1, doctorId, appointmentDate, currentAppointmentId),
                 timeToMinutes(appointmentTime))

\* ------------------------------------------------- the checker on its own
NoCall == [kind |-> "none"]

Stores == UNION {[1..n -> Appointment] : n \in 0..MaxAppts}

NoWrite == <<>>

\* user_profiles as seeded: one nurse, and one doctor user per doctor.
SeededProfiles ==
    [u \in Users |->
        IF u = "nurse1" THEN [position |-> "nurse", doctor_id |-> 0]
        ELSE IF u = "doctor1" THEN [position |-> "doctor", doctor_id |-> 1]
        ELSE [position |-> "doctor", doctor_id |-> 2]]

NoRequest == [op |-> "none"]

\* No reschedule request answered yet.
NoResponse == [status |-> -1]

NoAppointment == [id |-> 0]

\* Both dashboards mounted on an empty store, each with its subscription.
IdleSessions ==
    /\ pc = [n \in Nurses |-> "idle"]
    /\ pending = [n \in Nurses |-> NoWrite]
    /\ toast = "none"
    /\ userProfile = [position |-> "doctor", doctor_id |-> 1]
    /\ dashAppointments = <<>>
    /\ selectedDate = 1
    /\ nurseAppointments = <<>>
    /\ mounted = [d \in Dashboards |-> TRUE]
    /\ channels = {[owner |-> "nurse", date |-> 0], [owner |-> "doctor", date |-> 1]}
    /\ notices = {}
    /\ inflight = [d \in Dashboards |-> {}]
    /\ writes = 0
    /\ patients = 0
    /\ doctors = Doctors
    /\ profiles = SeededProfiles
    /\ request = NoRequest
    /\ webhook = NoResponse
    /\ selectedAppointment = [n \in Nurses |-> NoAppointment]
    /\ editForm = [n \in Nurses |-> NoWrite]
    /\ isSubmitting = [n \in Nurses |-> [create |-> FALSE, edit |-> FALSE]]
    /\ showCreateForm = [n \in Nurses |-> FALSE]
    /\ showEditForm = [n \in Nurses |-> FALSE]

InitChecker ==
    /\ appointments \in Stores
    /\ checked = NoCall
    /\ IdleSessions

CallCreateChecker(doctorId, appointmentDate, appointmentTime) ==
    /\ checked = NoCall
    /\ checked' = [kind |-> "create", doctor_id |-> doctorId,
                   appointment_date |-> appointmentDate,
                   appointment_time |-> appointmentTime, id |-> 0,
                   hasConflict |-> checkTimeConflictCreate(appointments, doctorId,
                                       appointmentDate, appointmentTime)]
    /\ UNCHANGED <<appointments, pc, pending, toast, userProfile, dashAppointments,
                   selectedDate>>
    /\ UNCHANGED <<syncVars, dbVars, uiVars>>

CallEditChecker(id, doctorId, appointmentDate, appointmentTime) ==
    /\ checked = NoCall
    /\ id \in Ids(appointments)
    /\ checked' = [kind |-> "edit", doctor_id |-> doctorId,
                   appointment_date |-> appointmentDate,
                   appointment_time |-> appointmentTime, id |-> id,
                   hasConflict |-> checkTimeConflictEdit(appointments, doctorId,
                                       appointmentDate, appointmentTime, id)]
    /\ UNCHANGED <<appointments, pc, pending, toast, userProfile, dashAppointments,
                   selectedDate>>
    /\ UNCHANGED <<syncVars, dbVars, uiVars>>

NextChecker ==
    \/ \E d \in Doctors, dt \in Dates, t \in Times : CallCreateChecker(d, dt, t)
    \/ \E id \in 1..MaxAppts, d \in Doctors, dt \in Dates, t \in Times :
           CallEditChecker(id, d, dt, t)

SpecChecker == InitChecker /\ [][NextChecker]_vars

\* ------------------------------------------------------------ nurse forms
docVars == <<userProfile, dashAppointments, selectedDate>>

\* Rows the store holds or is about to receive from a handleSubmit past its check.
Booked == Len(appointments) + Cardinality({n \in Nurses : pc[n] = "inserting"})

Update(store, id, fields) == [store EXCEPT ![id] = fields @@ store[id]]

\* A row inserted with the status of a consultation under way.
NewAppointment_InConsultation(doctorId, appointmentDate, appointmentTime) ==
    [doctor_id |-> doctorId, appointment_date |-> appointmentDate,
     appointment_time |-> appointmentTime, status |-> "in_consultation"]

\* The row the create form inserts: status 'scheduled'.
NewAppointment(doctorId, appointmentDate, appointmentTime) ==
    [doctor_id |-> doctorId, appointment_date |-> appointmentDate,
     appointment_time |-> appointmentTime, status |-> "scheduled"]

\* setIsSubmitting(true) before the handler's first await, or
\* setIsSubmitting(false) on a return before the write; the dialogs stay.
SubmitStays(n, form, submitting) ==
    /\ isSubmitting' = [isSubmitting EXCEPT ![n][form] = submitting]
    /\ UNCHANGED dialogVars

\* SubmitEnds with setIsSubmitting(false) after the success message instead
\* of in a finally block.
SubmitEnds_NoFinally(n, form, success) ==
    /\ isSubmitting' = [isSubmitting EXCEPT ![n][form] = ~success]
    /\ showCreateForm' = IF success /\ form = "create"
                         THEN [showCreateForm EXCEPT ![n] = FALSE] ELSE showCreateForm
    /\ showEditForm' = IF success /\ form = "edit"
                       THEN [showEditForm EXCEPT ![n] = FALSE] ELSE showEditForm
    /\ UNCHANGED <<webhook, selectedAppointment, editForm>>

\* The end of handleSubmit: onOpenChange(false) after the success message
\* only, and setIsSubmitting(false) in the finally block.
SubmitEnds(n, form, success) ==
    /\ isSubmitting' = [isSubmitting EXCEPT ![n][form] = FALSE]
    /\ showCreateForm' = IF success /\ form = "create"
                         THEN [showCreateForm EXCEPT ![n] = FALSE] ELSE showCreateForm
    /\ showEditForm' = IF success /\ form = "edit"
                       THEN [showEditForm EXCEPT ![n] = FALSE] ELSE showEditForm
    /\ UNCHANGED <<webhook, selectedAppointment, editForm>>

\* CreateSubmit that shows the conflict message and goes on to the insert.
CreateSubmit_NoReturn(n, isNewPatient, doctorId, appointmentDate, appointmentTime, fails) ==
    /\ pc[n] = "idle"
    /\ Booked < MaxAppts
    /\ fails \in SubmitFailures
    /\ fails = "patient" => isNewPatient
    /\ isNewPatient => patients < MaxPatients
    /\ patients' = IF isNewPatient /\ fails # "patient" THEN patients + 1 ELSE patients
    /\ IF fails # "none"
       THEN /\ toast' = "failed"
            /\ UNCHANGED <<pc, pending>>
       ELSE /\ toast' = IF checkTimeConflictCreate(appointments, doctorId, appointmentDate,
                                                    appointmentTime)
                        THEN "conflict" ELSE toast
            /\ pc' = [pc EXCEPT ![n] = "inserting"]
            /\ pending' = [pending EXCEPT ![n] =
                               NewAppointment(doctorId, appointmentDate, appointmentTime)]
    /\ UNCHANGED <<appointments, checked>>
    /\ UNCHANGED docVars
    /\ UNCHANGED <<syncVars, doctors, profiles, request>>
    /\ SubmitStays(n, "create", pc'[n] = "inserting")

\* Create form, handleSubmit up to the answer of checkTimeConflict: in
\* new-patient mode the patient is inserted first; a failed patient insert or
\* a failed query is caught, a conflict returns, otherwise the insert is issued.
CreateSubmit(n, isNewPatient, doctorId, appointmentDate, appointmentTime, fails) ==
    /\ pc[n] = "idle"
    /\ Booked < MaxAppts
    /\ fails \in SubmitFailures
    /\ fails = "patient" => isNewPatient
    /\ isNewPatient => patients < MaxPatients
    /\ patients' = IF isNewPatient /\ fails # "patient" THEN patients + 1 ELSE patients
    /\ IF fails # "none"
       THEN /\ toast' = "failed"
            /\ UNCHANGED <<pc, pending>>
       ELSE IF checkTimeConflictCreate(appointments, doctorId, appointmentDate, appointmentTime)
       THEN /\ toast' = "conflict"
            /\ UNCHANGED <<pc, pending>>
       ELSE /\ pc' = [pc EXCEPT ![n] = "inserting"]
            /\ pending' = [pending EXCEPT ![n] =
                               NewAppointment(doctorId, appointmentDate, appointmentTime)]
            /\ UNCHANGED toast
    /\ UNCHANGED <<appointments, checked>>
    /\ UNCHANGED docVars
    /\ UNCHANGED <<syncVars, doctors, profiles, request>>
    /\ SubmitStays(n, "create", pc'[n] = "inserting")

\* CreateInsert against a store that refuses a row within 30 minutes of an
\* active one (the check repeated inside the write).
CreateInsert_Checked(n, ok) ==
    /\ pc[n] = "inserting"
    /\ IF ok /\ ~checkTimeConflictCreate(appointments, pending[n].doctor_id,
                      pending[n].appointment_date, pending[n].appointment_time)
       THEN /\ appointments' = Append(appointments, pending[n])
            /\ toast' = "success"
       ELSE /\ toast' = IF ok THEN "conflict" ELSE "failed"
            /\ UNCHANGED appointments
    /\ pc' = [pc EXCEPT ![n] = "idle"]
    /\ pending' = [pending EXCEPT ![n] = NoWrite]
    /\ UNCHANGED checked
    /\ UNCHANGED docVars
    /\ UNCHANGED <<syncVars, dbVars>>
    /\ SubmitEnds(n, "create", toast' = "success")

\* Create form, the insert reaching the store and the rest of handleSubmit.
CreateInsert(n, ok) ==
    /\ pc[n] = "inserting"
    /\ IF ok
       THEN /\ appointments' = Append(appointments, pending[n])
            /\ toast' = "success"
       ELSE /\ toast' = "failed"
            /\ UNCHANGED appointments
    /\ pc' = [pc EXCEPT ![n] = "idle"]
    /\ pending' = [pending EXCEPT ![n] = NoWrite]
    /\ UNCHANGED checked
    /\ UNCHANGED docVars
    /\ UNCHANGED <<syncVars, dbVars>>
    /\ SubmitEnds(n, "create", toast' = "success")

\* Edit form, handleSubmit up to the answer of checkTimeConflict.
EditSubmit(n, id, doctorId, appointmentDate, appointmentTime, status, ok) ==
    /\ pc[n] = "idle"
    /\ id \in Ids(appointments)
    /\ IF ~ok
       THEN /\ toast' = "failed"
            /\ UNCHANGED <<pc, pending>>
       ELSE IF checkTimeConflictEdit(appointments, doctorId, appointmentDate,
                                     appointmentTime, id)
       THEN /\ toast' = "conflict"
            /\ UNCHANGED <<pc, pending>>
       ELSE /\ pc' = [pc EXCEPT ![n] = "updating"]
            /\ pending' = [pending EXCEPT ![n] =
                               [id |-> id, doctor_id |-> doctorId,
                                appointment_date |-> appointmentDate,
                                appointment_time |-> appointmentTime, status |-> status]]
            /\ UNCHANGED toast
    /\ UNCHANGED <<appointments, checked>>
    /\ UNCHANGED docVars
    /\ UNCHANGED <<syncVars, dbVars>>
    /\ SubmitStays(n, "edit", pc'[n] = "updating")

\* EditUpdate that leaves the status of a completed, cancelled or no_show row.
EditUpdate_KeepsTerminal(n, ok) ==
    /\ pc[n] = "updating"
    /\ IF ok
       THEN /\ appointments' = Update(appointments, pending[n].id,
                                      [doctor_id |-> pending[n].doctor_id,
                                       appointment_date |-> pending[n].appointment_date,
                                       appointment_time |-> pending[n].appointment_time,
                                       status |-> IF appointments[pending[n].id].status
                                                       \in {"completed", "cancelled", "no_show"}
                                                  THEN appointments[pending[n].id].status
                                                  ELSE pending[n].status])
            /\ toast' = "success"
       ELSE /\ toast' = "failed"
            /\ UNCHANGED appointments
    /\ pc' = [pc EXCEPT ![n] = "idle"]
    /\ pending' = [pending EXCEPT ![n] = NoWrite]
    /\ UNCHANGED checked
    /\ UNCHANGED docVars
    /\ UNCHANGED <<syncVars, dbVars>>
    /\ SubmitEnds(n, "edit", toast' = "success")

\* EditUpdate whose update leaves the status column out.
EditUpdate_KeepsStatus(n, ok) ==
    /\ pc[n] = "updating"
    /\ IF ok
       THEN /\ appointments' = Update(appointments, pending[n].id,
                                      [doctor_id |-> pending[n].doctor_id,
                                       appointment_date |-> pending[n].appointment_date,
                                       appointment_time |-> pending[n].appointment_time])
            /\ toast' = "success"
       ELSE /\ toast' = "failed"
            /\ UNCHANGED appointments
    /\ pc' = [pc EXCEPT ![n] = "idle"]
    /\ pending' = [pending EXCEPT ![n] = NoWrite]
    /\ UNCHANGED checked
    /\ UNCHANGED docVars
    /\ UNCHANGED <<syncVars, dbVars>>
    /\ SubmitEnds(n, "edit", toast' = "success")

\* Edit form, the update reaching the store and the rest of handleSubmit.
EditUpdate(n, ok) ==
    /\ pc[n] = "updating"
    /\ IF ok
       THEN /\ appointments' = Update(appointments, pending[n].id,
                                      [doctor_id |-> pending[n].doctor_id,
                                       appointment_date |-> pending[n].appointment_date,
                                       appointment_time |-> pending[n].appointment_time,
                                       status |-> pending[n].status])
            /\ toast' = "success"
       ELSE /\ toast' = "failed"
            /\ UNCHANGED appointments
    /\ pc' = [pc EXCEPT ![n] = "idle"]
    /\ pending' = [pending EXCEPT ![n] = NoWrite]
    /\ UNCHANGED checked
    /\ UNCHANGED docVars
    /\ UNCHANGED <<syncVars, dbVars>>
    /\ SubmitEnds(n, "edit", toast' = "success")

\* Cancel as a delete of the row.
Cancel_Deletes(n, id, ok) ==
    /\ pc[n] = "idle"
    /\ id \in Ids(appointments)
    /\ IF ok
       THEN /\ appointments' = [j \in 1..(Len(appointments) - 1) |->
                                   IF j < id THEN appointments[j] ELSE appointments[j + 1]]
            /\ toast' = "success"
       ELSE /\ toast' = "failed"
            /\ UNCHANGED appointments
    /\ UNCHANGED <<checked, pc, pending>>
    /\ UNCHANGED docVars
    /\ UNCHANGED <<syncVars, dbVars, uiVars>>

\* Details modal, handleCancel: one update of the status to 'cancelled'.
Cancel(n, id, ok) ==
    /\ pc[n] = "idle"
    /\ id \in Ids(appointments)
    /\ IF ok
       THEN /\ appointments' = Update(appointments, id, [status |-> "cancelled"])
            /\ toast' = "success"
       ELSE /\ toast' = "failed"
            /\ UNCHANGED appointments
    /\ UNCHANGED <<checked, pc, pending>>
    /\ UNCHANGED docVars
    /\ UNCHANGED <<syncVars, dbVars, uiVars>>

Init ==
    /\ appointments = <<>>
    /\ checked = NoCall
    /\ IdleSessions

Next ==
    \/ \E n \in Nurses, new \in BOOLEAN, d \in Doctors, dt \in FormDates, t \in FormTimes,
          fails \in SubmitFailures :
           CreateSubmit(n, new, d, dt, t, fails)
    \/ \E n \in Nurses, ok \in BOOLEAN : CreateInsert(n, ok)
    \/ \E n \in Editors, id \in 1..MaxAppts, d \in Doctors, dt \in FormDates,
          t \in FormTimes, s \in AppointmentStatus, ok \in BOOLEAN :
           EditSubmit(n, id, d, dt, t, s, ok)
    \/ \E n \in Editors, ok \in BOOLEAN : EditUpdate(n, ok)
    \/ \E n \in Editors, id \in 1..MaxAppts, ok \in BOOLEAN : Cancel(n, id, ok)

Spec == Init /\ [][Next]_vars

\* ------------------------------------------ nurse forms, one at a time
\* CreateAppointment that takes a failed conflict query for "no conflict".
CreateAppointment_QueryFailsOpen(n, isNewPatient, doctorId, appointmentDate, appointmentTime, fails) ==
    /\ pc[n] = "idle"
    /\ Booked < MaxAppts
    /\ fails \in CreateFailures
    /\ fails = "patient" => isNewPatient
    /\ isNewPatient => patients < MaxPatients
    /\ patients' = IF isNewPatient /\ fails # "patient" THEN patients + 1 ELSE patients
    /\ IF fails = "patient"
       THEN /\ toast' = "failed"
            /\ UNCHANGED appointments
       ELSE IF fails # "query" /\ checkTimeConflictCreate(appointments, doctorId,
                                      appointmentDate, appointmentTime)
       THEN /\ toast' = "conflict"
            /\ UNCHANGED appointments
       ELSE IF fails # "insert"
       THEN /\ appointments' = Append(appointments,
                                      NewAppointment(doctorId, appointmentDate, appointmentTime))
            /\ toast' = IF fails = "query" THEN "failed" ELSE "success"
       ELSE /\ toast' = "failed"
            /\ UNCHANGED appointments
    /\ UNCHANGED <<checked, pc, pending>>
    /\ UNCHANGED docVars
    /\ UNCHANGED <<syncVars, doctors, profiles, request>>
    /\ SubmitEnds(n, "create", toast' = "success")

\* The create form's handleSubmit run without another operation in between.
CreateAppointment(n, isNewPatient, doctorId, appointmentDate, appointmentTime, fails) ==
    /\ pc[n] = "idle"
    /\ Booked < MaxAppts
    /\ fails \in CreateFailures
    /\ fails = "patient" => isNewPatient
    /\ isNewPatient => patients < MaxPatients
    /\ patients' = IF isNewPatient /\ fails # "patient" THEN patients + 1 ELSE patients
    /\ IF fails \in {"patient", "query"}
       THEN /\ toast' = "failed"
            /\ UNCHANGED appointments
       ELSE IF checkTimeConflictCreate(appointments, doctorId, appointmentDate, appointmentTime)
       THEN /\ toast' = "conflict"
            /\ UNCHANGED appointments
       ELSE IF fails = "none"
       THEN /\ appointments' = Append(appointments,
                                      NewAppointment(doctorId, appointmentDate, appointmentTime))
            /\ toast' = "success"
       ELSE /\ toast' = "failed"
            /\ UNCHANGED appointments
    /\ UNCHANGED <<checked, pc, pending>>
    /\ UNCHANGED docVars
    /\ UNCHANGED <<syncVars, doctors, profiles, request>>
    /\ SubmitEnds(n, "create", toast' = "success")

\* EditAppointment without the call of checkTimeConflict.
EditAppointment_NoCheck(n, id, doctorId, appointmentDate, appointmentTime, status, fails) ==
    /\ pc[n] = "idle"
    /\ id \in Ids(appointments)
    /\ fails \in EditFailures
    /\ IF fails = "none"
       THEN /\ appointments' = Update(appointments, id,
                                      [doctor_id |-> doctorId,
                                       appointment_date |-> appointmentDate,
                                       appointment_time |-> appointmentTime,
                                       status |-> status])
            /\ toast' = "success"
       ELSE /\ toast' = "failed"
            /\ UNCHANGED appointments
    /\ UNCHANGED <<checked, pc, pending>>
    /\ UNCHANGED docVars
    /\ UNCHANGED <<syncVars, dbVars>>
    /\ SubmitEnds(n, "edit", toast' = "success")

\* EditAppointment that skips checkTimeConflict when the submitted status is
\* completed, cancelled or no_show.
EditAppointment_ChecksActiveOnly(n, id, doctorId, appointmentDate, appointmentTime, status, fails) ==
    /\ pc[n] = "idle"
    /\ id \in Ids(appointments)
    /\ fails \in EditFailures
    /\ IF fails = "query"
       THEN /\ toast' = "failed"
            /\ UNCHANGED appointments
       ELSE IF /\ status \in {"scheduled", "in_consultation"}
               /\ checkTimeConflictEdit(appointments, doctorId, appointmentDate,
                                        appointmentTime, id)
       THEN /\ toast' = "conflict"
            /\ UNCHANGED appointments
       ELSE IF fails = "none"
       THEN /\ appointments' = Update(appointments, id,
                                      [doctor_id |-> doctorId,
                                       appointment_date |-> appointmentDate,
                                       appointment_time |-> appointmentTime,
                                       status |-> status])
            /\ toast' = "success"
       ELSE /\ toast' = "failed"
            /\ UNCHANGED appointments
    /\ UNCHANGED <<checked, pc, pending>>
    /\ UNCHANGED docVars
    /\ UNCHANGED <<syncVars, dbVars>>
    /\ SubmitEnds(n, "edit", toast' = "success")

\* The edit form's handleSubmit run without another operation in between.
EditAppointment(n, id, doctorId, appointmentDate, appointmentTime, status, fails) ==
    /\ pc[n] = "idle"
    /\ id \in Ids(appointments)
    /\ fails \in EditFailures
    /\ IF fails = "query"
       THEN /\ toast' = "failed"
            /\ UNCHANGED appointments
       ELSE IF checkTimeConflictEdit(appointments, doctorId, appointmentDate, appointmentTime, id)
       THEN /\ toast' = "conflict"
            /\ UNCHANGED appointments
       ELSE IF fails = "none"
       THEN /\ appointments' = Update(appointments, id,
                                      [doctor_id |-> doctorId,
                                       appointment_date |-> appointmentDate,
                                       appointment_time |-> appointmentTime,
                                       status |-> status])
            /\ toast' = "success"
       ELSE /\ toast' = "failed"
            /\ UNCHANGED appointments
    /\ UNCHANGED <<checked, pc, pending>>
    /\ UNCHANGED docVars
    /\ UNCHANGED <<syncVars, dbVars>>
    /\ SubmitEnds(n, "edit", toast' = "success")

\* ------------------------------------------------------ doctor dashboard
Null == [id |-> 0, status |-> "none"]

\* ORDER BY appointment_time ascending, on the "HH:MM" fields.
TimeLeq(t1, t2) == t1[1] < t2[1] \/ (t1[1] = t2[1] /\ t1[2] <= t2[2])

\* The ids fetchAppointments selects: the profile's doctor, the selected date,
\* status scheduled, in_consultation or completed.
Fetched(store, doctorId, searchDate) ==
    {i \in Ids(store) :
        /\ store[i].doctor_id = doctorId
        /\ store[i].appointment_date = searchDate
        /\ store[i].status \in {"scheduled", "in_consultation", "completed"}}

\* The lists the query may return: the fetched rows in ascending time order,
\* rows of equal time in either order.
FetchResults(store, doctorId, searchDate) ==
    LET ids == Fetched(store, doctorId, searchDate)
        k == Cardinality(ids)
    IN {[j \in 1..k |-> [id |-> order[j], status |-> store[order[j]].status]] :
            order \in {o \in [1..k -> ids] :
                          /\ \A a, b \in 1..k : a # b => o[a] # o[b]
                          /\ \A a, b \in 1..k :
                                a < b => TimeLeq(store[o[a]].appointment_time,
                                                 store[o[b]].appointment_time)}}

\* organizeAppointments: find the first in_consultation row.
RECURSIVE Find(_, _)
Find(list, status) ==
    IF list = <<>> THEN Null
    ELSE IF Head(list).status = status THEN Head(list)
    ELSE Find(Tail(list), status)

Filter(list, status) == SelectSeq(list, LAMBDA apt : apt.status = status)

\* slice that returns the whole list.
Slice_Whole(list, count) == list

Slice(list, count) == SubSeq(list, 1, IF Len(list) < count THEN Len(list) ELSE count)

currentAppointment == Find(dashAppointments, "in_consultation")

nextAppointments == Slice(Filter(dashAppointments, "scheduled"), QueueLimit)

completedCount == Len(Filter(dashAppointments, "completed"))

QueueIds == {nextAppointments[j].id : j \in 1..Len(nextAppointments)}

\* An update issued by the doctor's session: the row-level policy lets it
\* through only on a row whose doctor_id is the profile's; otherwise no row
\* is updated and no error is returned.
DoctorUpdate(store, id, status) ==
    IF store[id].doctor_id = userProfile.doctor_id
    THEN Update(store, id, [status |-> status])
    ELSE store

nurseVars == <<checked, pc, pending>>

\* fetchAppointments, on mount, on a change notification or on the 30 s poll.
fetchAppointments(ok) ==
    /\ IF ok
       THEN /\ dashAppointments' \in
                  FetchResults(appointments, userProfile.doctor_id, selectedDate)
            /\ UNCHANGED toast
       ELSE /\ toast' = "failed"
            /\ UNCHANGED dashAppointments
    /\ UNCHANGED <<appointments, userProfile, selectedDate>>
    /\ UNCHANGED nurseVars
    /\ UNCHANGED <<syncVars, dbVars, uiVars>>

\* The calendar's onSelect: the effect on selectedDate fetches at once, and
\* the dashboard shows the loading screen until that fetch has returned.
selectDate(date, ok) ==
    /\ date # selectedDate
    /\ selectedDate' = date
    /\ IF ok
       THEN /\ dashAppointments' \in
                  FetchResults(appointments, userProfile.doctor_id, date)
            /\ UNCHANGED toast
       ELSE /\ toast' = "failed"
            /\ UNCHANGED dashAppointments
    /\ UNCHANGED <<appointments, userProfile>>
    /\ UNCHANGED nurseVars
    /\ UNCHANGED <<syncVars, dbVars, uiVars>>

\* handleStartConsultation with the button enabled whatever currentAppointment is.
handleStartConsultation_AlwaysEnabled(appointmentId, ok) ==
    /\ appointmentId \in QueueIds
    /\ IF ok
       THEN /\ appointments' = DoctorUpdate(appointments, appointmentId, "in_consultation")
            /\ toast' = "success"
       ELSE /\ toast' = "failed"
            /\ UNCHANGED appointments
    /\ UNCHANGED docVars
    /\ UNCHANGED <<syncVars, dbVars, uiVars>>
    /\ UNCHANGED nurseVars

\* Start Consultation on a row of the Next Patients queue; the button is
\* disabled while currentAppointment is set.
handleStartConsultation(appointmentId, ok) ==
    /\ appointmentId \in QueueIds
    /\ currentAppointment = Null
    /\ IF ok
       THEN /\ appointments' = DoctorUpdate(appointments, appointmentId, "in_consultation")
            /\ toast' = "success"
       ELSE /\ toast' = "failed"
            /\ UNCHANGED appointments
    /\ UNCHANGED docVars
    /\ UNCHANGED <<syncVars, dbVars, uiVars>>
    /\ UNCHANGED nurseVars

\* handleCompleteConsultation writing 'no_show'.
handleCompleteConsultation_WrongStatus(ok) ==
    /\ currentAppointment # Null
    /\ IF ok
       THEN /\ appointments' = DoctorUpdate(appointments, currentAppointment.id, "no_show")
            /\ toast' = "success"
       ELSE /\ toast' = "failed"
            /\ UNCHANGED appointments
    /\ UNCHANGED docVars
    /\ UNCHANGED <<syncVars, dbVars, uiVars>>
    /\ UNCHANGED nurseVars

\* Complete Consultation, rendered only while currentAppointment is set.
handleCompleteConsultation(ok) ==
    /\ currentAppointment # Null
    /\ IF ok
       THEN /\ appointments' = DoctorUpdate(appointments, currentAppointment.id, "completed")
            /\ toast' = "success"
       ELSE /\ toast' = "failed"
            /\ UNCHANGED appointments
    /\ UNCHANGED docVars
    /\ UNCHANGED <<syncVars, dbVars, uiVars>>
    /\ UNCHANGED nurseVars

\* handleMarkNoShow with a No Show button on every row of the fetched list.
handleMarkNoShow_AnyListed(appointmentId, ok) ==
    /\ \E j \in 1..Len(dashAppointments) : dashAppointments[j].id = appointmentId
    /\ IF ok
       THEN /\ appointments' = DoctorUpdate(appointments, appointmentId, "no_show")
            /\ toast' = "success"
       ELSE /\ toast' = "failed"
            /\ UNCHANGED appointments
    /\ UNCHANGED docVars
    /\ UNCHANGED nurseVars
    /\ UNCHANGED <<syncVars, dbVars, uiVars>>

\* The No Show button of a queue row and the dialog's action button:
\* setSelectedForNoShow(appointment), then handleMarkNoShow on that row.
handleMarkNoShow(appointmentId, ok) ==
    /\ appointmentId \in QueueIds
    /\ IF ok
       THEN /\ appointments' = DoctorUpdate(appointments, appointmentId, "no_show")
            /\ toast' = "success"
       ELSE /\ toast' = "failed"
            /\ UNCHANGED appointments
    /\ UNCHANGED docVars
    /\ UNCHANGED <<syncVars, dbVars, uiVars>>
    /\ UNCHANGED nurseVars

DoctorNext ==
    \/ \E ok \in BOOLEAN : fetchAppointments(ok)
    \/ \E dt \in Dates, ok \in BOOLEAN : selectDate(dt, ok)
    \/ \E id \in 1..MaxAppts, ok \in BOOLEAN : handleStartConsultation(id, ok)
    \/ \E ok \in BOOLEAN : handleCompleteConsultation(ok)
    \/ \E id \in 1..MaxAppts, ok \in BOOLEAN : handleMarkNoShow(id, ok)

NextAtomic ==
    \/ \E n \in Editors, new \in ExistingPatient, d \in Doctors, dt \in FormDates,
          t \in ClinicTimes, fails \in WriteFailures :
           CreateAppointment(n, new, d, dt, t, fails)
    \/ \E n \in Editors, id \in 1..MaxAppts, d \in Doctors, dt \in FormDates, t \in ClinicTimes,
          s \in AppointmentStatus, fails \in WriteFailures :
           EditAppointment(n, id, d, dt, t, s, fails)
    \/ \E n \in Editors, id \in 1..MaxAppts, ok \in BOOLEAN : Cancel(n, id, ok)
    \/ DoctorNext

SpecAtomic == Init /\ [][NextAtomic]_vars

\* ------------------------------------------------ claims on the checker
Active(apt) == apt.status \in {"scheduled", "in_consultation"}

MinutesApart(t1, t2) ==
    LET m1 == 60 * t1[1] + t1[2]
        m2 == 60 * t2[1] + t2[2]
    IN IF m1 >= m2 THEN m1 - m2 ELSE m2 - m1

\* Some row other than `id` of that doctor on that date is active and less
\* than 30 minutes from `time`.
OtherActiveWithin30(store, id, doctorId, date, time) ==
    \E j \in Ids(store) :
        /\ j # id
        /\ store[j].doctor_id = doctorId
        /\ store[j].appointment_date = date
        /\ Active(store[j])
        /\ MinutesApart(store[j].appointment_time, time) < 30

\* C1: checkTimeConflict (create and edit) reports a conflict exactly when some
\* other appointment of that doctor on that date, scheduled or in_consultation,
\* is strictly less than 30 minutes from the candidate time.
C1_ConflictExactlyWithin30 ==
    checked.kind # "none" =>
        (checked.hasConflict <=>
            OtherActiveWithin30(appointments, checked.id, checked.doctor_id,
                                checked.appointment_date, checked.appointment_time))

\* C1 witness: a create check that reports a conflict with a row 25 minutes
\* away across the hour, next to a row of the same slot that is not active.
C1_Witness ==
    /\ checked.kind = "create"
    /\ checked.hasConflict
    /\ checked.appointment_time = <<9, 15>>
    /\ Len(appointments) = 2
    /\ \E i, j \in Ids(appointments) :
          /\ appointments[i] = [doctor_id |-> checked.doctor_id,
                                appointment_date |-> checked.appointment_date,
                                appointment_time |-> <<8, 50>>, status |-> "in_consultation"]
          /\ appointments[j] = [doctor_id |-> checked.doctor_id,
                                appointment_date |-> checked.appointment_date,
                                appointment_time |-> <<9, 15>>, status |-> "cancelled"]

\* Doctor d's active appointments on date dt are exactly one at 09:00 and one at 09:20.
HoldsNineAndNineTwenty(store, d, dt) ==
    /\ \E i \in Ids(store) : /\ store[i].doctor_id = d /\ store[i].appointment_date = dt
                              /\ Active(store[i]) /\ store[i].appointment_time = <<9, 0>>
    /\ \E i \in Ids(store) : /\ store[i].doctor_id = d /\ store[i].appointment_date = dt
                              /\ Active(store[i]) /\ store[i].appointment_time = <<9, 20>>
    /\ \A i \in Ids(store) :
          (store[i].doctor_id = d /\ store[i].appointment_date = dt /\ Active(store[i]))
              => store[i].appointment_time \in {<<9, 0>>, <<9, 20>>}

ExampleCall ==
    /\ checked.kind = "create"
    /\ HoldsNineAndNineTwenty(appointments, checked.doctor_id, checked.appointment_date)

\* C4 as stated: with active appointments at 09:00 and 09:20, a third at 09:15
\* is rejected and one at 09:35 is accepted.
C4_AsStated ==
    ExampleCall =>
        /\ (checked.appointment_time = <<9, 15>> => checked.hasConflict)
        /\ (checked.appointment_time = <<9, 35>> => ~checked.hasConflict)

\* C4 amended: with active appointments at 09:00 and 09:20, a third at 09:15 is
\* rejected, one at 09:35 is rejected too (15 minutes after 09:20), and one at
\* 09:50 is accepted.
C4_NineThirtyFiveRejected ==
    ExampleCall =>
        /\ (checked.appointment_time = <<9, 15>> => checked.hasConflict)
        /\ (checked.appointment_time = <<9, 35>> => checked.hasConflict)
        /\ (checked.appointment_time = <<9, 50>> => ~checked.hasConflict)

\* C4 witness: the example's store, and the create check at 09:35 reporting a conflict.
C4_Witness ==
    /\ ExampleCall
    /\ checked.appointment_time = <<9, 35>>
    /\ checked.hasConflict


\* The edit call keeps the appointment's doctor and date and keeps its time or
\* moves it by less than 30 minutes.
KeepsSlot ==
    /\ checked.kind = "edit"
    /\ checked.doctor_id = appointments[checked.id].doctor_id
    /\ checked.appointment_date = appointments[checked.id].appointment_date
    /\ MinutesApart(checked.appointment_time,
                    appointments[checked.id].appointment_time) < 30

\* C5: the edit form's check of a submission that keeps the appointment's
\* doctor and date and keeps its time or moves it by less than 30 minutes
\* reports no conflict on account of the appointment's own row, whatever its
\* status: it reports one only when another active row is within 30 minutes.
C5_NoConflictWithItself ==
    KeepsSlot =>
        (checked.hasConflict =>
            \E j \in Ids(appointments) \ {checked.id} :
                /\ Active(appointments[j])
                /\ appointments[j].doctor_id = checked.doctor_id
                /\ appointments[j].appointment_date = checked.appointment_date
                /\ MinutesApart(appointments[j].appointment_time,
                                checked.appointment_time) < 30)

\* C5 witness: the check of an edit that keeps the time of an appointment in
\* consultation, beside a cancelled row of the same slot, reports no conflict.
C5_Witness ==
    /\ KeepsSlot
    /\ ~checked.hasConflict
    /\ appointments[checked.id].status = "in_consultation"
    /\ checked.appointment_time = appointments[checked.id].appointment_time
    /\ Len(appointments) = 2

\* ---------------------------------------------- claims on the nurse forms
SameSlotWithin30(a, b) ==
    /\ a.doctor_id = b.doctor_id
    /\ a.appointment_date = b.appointment_date
    /\ MinutesApart(a.appointment_time, b.appointment_time) < 30

\* Session n's create handleSubmit finishes in this step and its insert did not fail.
InsertReturns(n) == pc[n] = "inserting" /\ pc'[n] = "idle" /\ toast' # "failed"

\* C3: when two create submissions of the same doctor and date, less than 30
\* minutes apart, have both read before either inserts, each insert that the
\* store does not fail adds its scheduled row; the second one is added next to
\* the first one's row, so the store holds two scheduled appointments of that
\* doctor within 30 minutes.
C3_RaceBothInsertsSucceed ==
    [][\A n \in Nurses :
          InsertReturns(n) =>
              /\ appointments' = Append(appointments, pending[n])
              /\ pending[n].status = "scheduled"
              /\ toast' = "success"
              /\ \A m \in Nurses \ {n} :
                    (pc[m] = "inserting" /\ SameSlotWithin30(pending[m], pending[n]))
                        => (pc'[m] = "inserting" /\ pending'[m] = pending[m])]_vars

\* C3 witness: both sessions idle after an insert, and the store holds two
\* scheduled appointments of one doctor and date less than 30 minutes apart.
C3_Witness ==
    /\ \A n \in Nurses : pc[n] = "idle"
    /\ toast = "success"
    /\ Len(appointments) = 2
    /\ appointments[1].status = "scheduled"
    /\ appointments[2].status = "scheduled"
    /\ SameSlotWithin30(appointments[1], appointments[2])

\* C6: the step of a create or edit submission that reports a conflict issues
\* no insert and no update: it leaves the appointments as they were and no
\* write pending in any session; and a write is pending only from a submission
\* that did not report a conflict.
C6_ConflictIssuesNoWrite ==
    [][/\ (toast' = "conflict" /\ toast # "conflict")
            => (appointments' = appointments /\ pc' = pc /\ pending' = pending)
       /\ \A n \in Nurses :
            (pc[n] = "idle" /\ pc'[n] # "idle")
                => (toast' = toast /\ appointments' = appointments)]_vars

\* C6 witness: the conflict message is up, no write is pending, and the store
\* holds the active appointment the submission collided with.
C6_Witness ==
    /\ toast = "conflict"
    /\ \A n \in Nurses : pc[n] = "idle" /\ pending[n] = NoWrite
    /\ \E id \in Ids(appointments) : Active(appointments[id])

\* C10 as stated: once an appointment's stored status is cancelled, no step
\* changes it.
C10_CancelledStaysCancelled ==
    [][\A id \in Ids(appointments) :
          appointments[id].status = "cancelled" => appointments'[id].status = "cancelled"]_vars

\* ------------------------------- claims on the operations one at a time
\* Two distinct rows of one doctor and date less than 30 minutes apart.
TooClose(i, j) == i # j /\ SameSlotWithin30(appointments[i], appointments[j])

\* C2 as stated: no two distinct appointments of the same doctor and date,
\* neither cancelled nor no_show, are less than 30 minutes apart.
C2_AsStated ==
    \A i, j \in Ids(appointments) :
        ( /\ appointments[i].status \notin {"cancelled", "no_show"}
          /\ appointments[j].status \notin {"cancelled", "no_show"} )
            => ~TooClose(i, j)

\* C2 amended: with every operation run one at a time, no two distinct
\* appointments of the same doctor and date that both have status scheduled
\* are less than 30 minutes apart.
C2_NoTwoScheduledWithin30 ==
    \A i, j \in Ids(appointments) :
        (appointments[i].status = "scheduled" /\ appointments[j].status = "scheduled")
            => ~TooClose(i, j)

\* C2 witness: two scheduled appointments of one doctor and date, exactly 30
\* minutes apart, after a submission for that doctor and date was turned down.
C2_Witness ==
    /\ Len(appointments) = 2
    /\ appointments[1].status = "scheduled"
    /\ appointments[2].status = "scheduled"
    /\ appointments[1].doctor_id = appointments[2].doctor_id
    /\ appointments[1].appointment_date = appointments[2].appointment_date
    /\ MinutesApart(appointments[1].appointment_time, appointments[2].appointment_time) = 30
    /\ toast = "conflict"

\* ------------------------------------- claims on the doctor dashboard
\* The rows whose stored status this step changes to in_consultation.
Started == {i \in Ids(appointments) :
               /\ appointments[i].status # "in_consultation"
               /\ appointments'[i].status = "in_consultation"}

\* C7 as stated: while no appointment of the queue is in_consultation, only
\* the oldest-by-time scheduled appointment of the queue can be started.
C7_AsStated ==
    [][\A id \in Ids(appointments) :
          handleStartConsultation(id, TRUE) => id = nextAppointments[1].id]_vars

\* C7 amended: while the fetched list holds no appointment in_consultation,
\* the doctor dashboard lets the doctor start any scheduled appointment shown
\* in the Next Patients queue, not only the oldest; it starts nothing while
\* the list holds one in_consultation, and nothing outside the queue.
C7_StartsAnyQueuedOnly ==
    [][\A id \in Ids(appointments) :
          handleStartConsultation(id, TRUE) =>
              /\ currentAppointment = Null
              /\ \E j \in 1..Len(nextAppointments) :
                    nextAppointments[j].id = id /\ nextAppointments[j].status = "scheduled"
              /\ Started \subseteq {id}
              /\ \A i \in Ids(appointments) \ {id} : appointments'[i] = appointments[i]]_vars

\* C7 witness: the second appointment of a two-row queue has been started
\* while the first is still scheduled and shown first.
C7_Witness ==
    /\ Len(nextAppointments) = 2
    /\ currentAppointment = Null
    /\ appointments[nextAppointments[1].id].status = "scheduled"
    /\ appointments[nextAppointments[2].id].status = "in_consultation"
    /\ appointments[nextAppointments[2].id].doctor_id = userProfile.doctor_id

\* C8: once one of the doctor's appointments of the day is in_consultation in
\* the store, the dashboard issues no start for another appointment.
C8_NoSecondStart ==
    [][\A id \in Ids(appointments) :
          handleStartConsultation(id, TRUE) =>
              ~\E other \in Ids(appointments) \ {id} :
                   /\ appointments[other].doctor_id = userProfile.doctor_id
                   /\ appointments[other].appointment_date = selectedDate
                   /\ appointments[other].status = "in_consultation"]_vars

\* This step re-fetches the doctor dashboard's list.
FetchStep == fetchAppointments(TRUE) \/ \E dt \in Dates : selectDate(dt, TRUE)

NurseLeq(a, b) ==
    \/ a.appointment_date < b.appointment_date
    \/ /\ a.appointment_date = b.appointment_date
       /\ TimeLeq(a.appointment_time, b.appointment_time)

\* A fetch of the nurse dashboard that leaves the cancelled rows out.
NurseFetchResults_ActiveOnly(store) ==
    LET ids == {i \in Ids(store) : store[i].status # "cancelled"}
        k == Cardinality(ids)
    IN {[j \in 1..k |-> [id |-> order[j]] @@ store[order[j]]] :
            order \in {o \in [1..k -> ids] :
                          /\ \A a, b \in 1..k : a # b => o[a] # o[b]
                          /\ \A a, b \in 1..k : a < b => NurseLeq(store[o[a]], store[o[b]])}}

\* The lists the nurse dashboard's query may return: every row of the
\* collection, whatever its status, in date and time order, ties either way.
NurseFetchResults(store) ==
    LET k == Len(store)
    IN {[j \in 1..k |-> [id |-> order[j]] @@ store[order[j]]] :
            order \in {o \in [1..k -> 1..k] :
                          /\ \A a, b \in 1..k : a # b => o[a] # o[b]
                          /\ \A a, b \in 1..k : a < b => NurseLeq(store[o[a]], store[o[b]])}}

\* String.toLowerCase, a letter at a time.
LowerLetter(c) ==
    IF c = "A" THEN "a" ELSE IF c = "B" THEN "b" ELSE IF c = "E" THEN "e"
    ELSE IF c = "N" THEN "n" ELSE c

toLowerCase(str) == [k \in 1..Len(str) |-> LowerLetter(str[k])]

\* String.includes.
includes(str, part) ==
    \E k \in 0..(Len(str) - Len(part)) : SubSeq(str, k + 1, k + Len(part)) = part

\* filterAppointments: by doctor unless 'all', by date, then by the search
\* query, when there is one, over the patient's and the doctor's name.
filterAppointments(list, selectedDoctor, nurseDate, searchQuery) ==
    SelectSeq(list, LAMBDA apt :
        /\ selectedDoctor # AllDoctors => apt.doctor_id = selectedDoctor
        /\ apt.appointment_date = nurseDate
        /\ searchQuery # <<>> =>
              \/ includes(toLowerCase(PatientName(apt.id)), toLowerCase(searchQuery))
              \/ includes(toLowerCase(DoctorName(apt.doctor_id)), toLowerCase(searchQuery)))

\* The edit form's effect on [open, appointment]: selectedDoctor, date, time
\* and status are set from the appointment handed to the form.
FormFields(appointment) ==
    [doctor_id |-> appointment.doctor_id,
     appointment_date |-> appointment.appointment_date,
     appointment_time |-> appointment.appointment_time,
     status |-> appointment.status]

\* The nurse dashboard's fetchAppointments, on mount or on a change
\* notification, with its answer handed to setAppointments. While isLoading
\* is set the dashboard renders the loading screen in place of its dialogs:
\* the forms are mounted anew, an open edit form initialised again from
\* selectedAppointment and isSubmitting false.
nurseFetchAppointments(ok) ==
    /\ IF ok
       THEN /\ nurseAppointments' \in NurseFetchResults(appointments)
            /\ UNCHANGED toast
       ELSE /\ toast' = "failed"
            /\ UNCHANGED nurseAppointments
    /\ editForm' = [n \in Nurses |-> IF showEditForm[n]
                                      THEN FormFields(selectedAppointment[n])
                                      ELSE editForm[n]]
    /\ isSubmitting' = [n \in Nurses |-> [create |-> FALSE, edit |-> FALSE]]
    /\ UNCHANGED <<appointments, checked, pc, pending>>
    /\ UNCHANGED docVars
    /\ UNCHANGED <<mounted, channels, notices, inflight, writes, dbVars>>
    /\ UNCHANGED <<webhook, selectedAppointment, showCreateForm, showEditForm>>

\* The nurse at the dashboard: bookings, cancellations, and the list re-fetched.
NextNurse ==
    \/ \E n \in Editors, new \in ExistingPatient, d \in Doctors, dt \in Dates,
          t \in ClinicTimes, fails \in WriteFailures :
           CreateAppointment(n, new, d, dt, t, fails)
    \/ \E n \in Editors, id \in 1..MaxAppts, ok \in BOOLEAN : Cancel(n, id, ok)
    \/ \E ok \in BOOLEAN : nurseFetchAppointments(ok)

SpecNurse == Init /\ [][NextNurse]_vars

\* ------------------------------------------ claims on the nurse dashboard
\* The ids of the rows a list shows.
ShownIds(list) == {list[j].id : j \in 1..Len(list)}

DoctorFilters == Doctors \cup {AllDoctors}

\* C11 as stated: after an appointment is cancelled and the nurse dashboard
\* has re-fetched, the filtered list does not contain it, whatever the
\* doctor, date and search filters are.
C11_AsStated ==
    [][nurseFetchAppointments(TRUE) =>
          \A i \in Ids(appointments) :
              appointments[i].status = "cancelled" =>
                  \A sd \in DoctorFilters, dt \in Dates, q \in Queries :
                      i \notin ShownIds(filterAppointments(nurseAppointments', sd, dt, q))]_vars

\* C11 amended: after an appointment is cancelled and the nurse dashboard has
\* re-fetched, the fetched list still holds it, with status cancelled, and
\* the filtered list shows it exactly when the doctor filter is 'all' or its
\* doctor, the date filter is its date, and the search query is empty or part
\* of its patient's or doctor's name: the status plays no part.
C11_CancelledStaysListed ==
    [][nurseFetchAppointments(TRUE) =>
          \A i \in Ids(appointments) :
              appointments[i].status = "cancelled" =>
                  /\ \E j \in 1..Len(nurseAppointments') :
                        nurseAppointments'[j] = [id |-> i] @@ appointments[i]
                  /\ \A sd \in DoctorFilters, dt \in Dates, q \in Queries :
                        i \in ShownIds(filterAppointments(nurseAppointments', sd, dt, q))
                          <=> /\ sd \in {AllDoctors, appointments[i].doctor_id}
                              /\ dt = appointments[i].appointment_date
                              /\ \/ q = <<>>
                                 \/ includes(toLowerCase(PatientName(i)), toLowerCase(q))
                                 \/ includes(toLowerCase(DoctorName(appointments[i].doctor_id)),
                                             toLowerCase(q))]_vars

\* C11 witness: a cancelled appointment in the re-fetched list, shown under
\* the filters of its own doctor and date and a matching search.
C11_Witness ==
    \E j \in 1..Len(nurseAppointments) :
        /\ nurseAppointments[j].status = "cancelled"
        /\ appointments[nurseAppointments[j].id].status = "cancelled"
        /\ nurseAppointments[j].id \in
              ShownIds(filterAppointments(nurseAppointments, nurseAppointments[j].doctor_id,
                                          nurseAppointments[j].appointment_date, <<"N">>))

\* --------------------------------------------------- claims on the store
\* C12: no operation removes an appointment from the store: cancelling only
\* sets the status of its row to cancelled, an insert adds one row under a
\* new id, and every other create, edit, cancel, start, complete or no-show
\* step leaves every id that was stored, stored.
C12_NoAppointmentRemoved ==
    [][/\ Ids(appointments) \subseteq Ids(appointments')
       /\ Len(appointments') > Len(appointments) =>
             /\ Len(appointments') = Len(appointments) + 1
             /\ SubSeq(appointments', 1, Len(appointments)) = appointments
       /\ \A n \in Editors, id \in Ids(appointments) :
             Cancel(n, id, TRUE) =>
                 appointments' = [appointments EXCEPT ![id].status = "cancelled"]]_vars

\* C12 witness: two appointments were inserted; one has been cancelled, the
\* other completed by the doctor, and both are still stored.
C12_Witness ==
    /\ Len(appointments) = 2
    /\ \E i, j \in Ids(appointments) :
          /\ appointments[i].status = "cancelled"
          /\ appointments[j].status = "completed"
    /\ \E j \in 1..Len(dashAppointments) : dashAppointments[j].status = "completed"

\* ------------------------------------ claims on the doctor's status writes
\* The status changes the doctor dashboard is meant to make.
DoctorTransitions ==
    {<<"scheduled", "in_consultation">>, <<"in_consultation", "completed">>,
     <<"scheduled", "no_show">>}

\* C13: every status write issued from the doctor dashboard targets an
\* appointment of the logged-in doctor and changes the status the store holds
\* at the moment of the write only along scheduled to in_consultation,
\* in_consultation to completed, or scheduled to no_show, also when the
\* fetched list is out of date.
C13_DoctorWritesAlongTransitions ==
    [][/\ \A id \in Ids(appointments) :
             handleStartConsultation(id, TRUE) =>
                 /\ appointments[id].doctor_id = userProfile.doctor_id
                 /\ appointments[id].status = "scheduled"
       /\ handleCompleteConsultation(TRUE) =>
             /\ appointments[currentAppointment.id].doctor_id = userProfile.doctor_id
             /\ appointments[currentAppointment.id].status = "in_consultation"
       /\ \A id \in Ids(appointments) :
             handleMarkNoShow(id, TRUE) =>
                 /\ appointments[id].doctor_id = userProfile.doctor_id
                 /\ appointments[id].status = "scheduled"
       /\ ( \/ \E id \in Ids(appointments) : handleStartConsultation(id, TRUE)
            \/ handleCompleteConsultation(TRUE)
            \/ \E id \in Ids(appointments) : handleMarkNoShow(id, TRUE) )
             => \A i \in Ids(appointments) :
                   appointments'[i] # appointments[i] =>
                       /\ appointments[i].doctor_id = userProfile.doctor_id
                       /\ <<appointments[i].status, appointments'[i].status>>
                              \in DoctorTransitions]_vars

\* ------------------------------------------- claims on the terminal states
Terminal == {"completed", "cancelled", "no_show"}

\* The status the doctor dashboard's fetched list shows for a row, if any.
ListedStatus(id) ==
    IF \E j \in 1..Len(dashAppointments) : dashAppointments[j].id = id
    THEN (CHOOSE apt \in {dashAppointments[j] : j \in 1..Len(dashAppointments)} :
              apt.id = id).status
    ELSE "none"

Subscribers(row) ==
    {ch \in channels : ch.owner = "nurse" \/ row.doctor_id = userProfile.doctor_id}

\* The answer a fetch issued by a subscription of this dashboard gets when
\* its query runs on the store as it is now.
QueryResults(ch) ==
    IF ch.owner = "nurse"
    THEN NurseFetchResults(appointments)
    ELSE FetchResults(appointments, userProfile.doctor_id, ch.date)

\* The create form's insert, committed and published.
SyncCreate(doctorId, appointmentDate, appointmentTime) ==
    /\ writes < MaxWrites
    /\ Len(appointments) < MaxAppts
    /\ ~checkTimeConflictCreate(appointments, doctorId, appointmentDate, appointmentTime)
    /\ appointments' = Append(appointments,
                              NewAppointment(doctorId, appointmentDate, appointmentTime))
    /\ notices' = notices \cup
                      Subscribers(NewAppointment(doctorId, appointmentDate, appointmentTime))
    /\ writes' = writes + 1
    /\ UNCHANGED <<checked, pc, pending, toast, dbVars, uiVars>>
    /\ UNCHANGED docVars
    /\ UNCHANGED <<nurseAppointments, mounted, channels, inflight>>

\* handleCancel's update, committed and published.
SyncCancel(id) ==
    /\ writes < MaxWrites
    /\ id \in Ids(appointments)
    /\ appointments' = Update(appointments, id, [status |-> "cancelled"])
    /\ notices' = notices \cup Subscribers(appointments[id])
    /\ writes' = writes + 1
    /\ UNCHANGED <<checked, pc, pending, toast, dbVars, uiVars>>
    /\ UNCHANGED docVars
    /\ UNCHANGED <<nurseAppointments, mounted, channels, inflight>>

\* A subscription's callback: fetchAppointments() is called, mounted or
\* not, and its query runs.
Notified(ch) ==
    /\ ch \in notices
    /\ notices' = notices \ {ch}
    /\ \E result \in QueryResults(ch) :
           inflight' = [inflight EXCEPT ![ch.owner] = @ \cup {result}]
    /\ UNCHANGED <<appointments, checked, pc, pending, toast, dbVars, uiVars>>
    /\ UNCHANGED docVars
    /\ UNCHANGED <<nurseAppointments, mounted, channels, writes>>

\* The doctor dashboard's setInterval(fetchAppointments, 30000).
Poll ==
    /\ mounted["doctor"]
    /\ \E result \in FetchResults(appointments, userProfile.doctor_id, selectedDate) :
           inflight' = [inflight EXCEPT !["doctor"] = @ \cup {result}]
    /\ UNCHANGED <<appointments, checked, pc, pending, toast, dbVars, uiVars>>
    /\ UNCHANGED docVars
    /\ UNCHANGED <<nurseAppointments, mounted, channels, notices, writes>>

\* A fetch's answer arrives, in any order: setAppointments(data), which
\* changes nothing on an unmounted component.
FetchReturns(d, result) ==
    /\ result \in inflight[d]
    /\ inflight' = [inflight EXCEPT ![d] = @ \ {result}]
    /\ IF ~mounted[d]
       THEN UNCHANGED <<nurseAppointments, dashAppointments>>
       ELSE IF d = "nurse"
       THEN nurseAppointments' = result /\ UNCHANGED dashAppointments
       ELSE dashAppointments' = result /\ UNCHANGED nurseAppointments
    /\ UNCHANGED <<appointments, checked, pc, pending, toast, dbVars, uiVars>>
    /\ UNCHANGED <<userProfile, selectedDate>>
    /\ UNCHANGED <<mounted, channels, notices, writes>>

\* The user leaves the dashboard: the effect's cleanup clears the doctor's
\* interval; the function subscribeToAppointments returned is not the
\* effect's cleanup, so removeChannel is never called.
Unmount(d) ==
    /\ mounted[d]
    /\ mounted' = [mounted EXCEPT ![d] = FALSE]
    /\ UNCHANGED <<appointments, checked, pc, pending, toast, dbVars, uiVars>>
    /\ UNCHANGED docVars
    /\ UNCHANGED <<nurseAppointments, channels, notices, inflight, writes>>

NextSync ==
    \/ \E d \in Doctors, dt \in FormDates, t \in ClinicTimes : SyncCreate(d, dt, t)
    \/ \E id \in 1..MaxAppts : SyncCancel(id)
    \/ \E ch \in channels : Notified(ch)
    \/ Poll
    \/ \E d \in Dashboards : \E result \in inflight[d] : FetchReturns(d, result)
    \/ \E d \in Dashboards : Unmount(d)

\* Notifications are delivered, the poll fires, and answers arrive.
FairSync ==
    /\ WF_vars(\E ch \in channels : Notified(ch))
    /\ WF_vars(Poll)
    /\ \A d \in Dashboards : WF_vars(\E result \in inflight[d] : FetchReturns(d, result))

SpecSync == Init /\ [][NextSync]_vars /\ FairSync

\* ---------------------------------------------- claims on the live lists
\* Every subscription a dashboard can register.
AllChannels ==
    {[owner |-> "nurse", date |-> 0]} \cup {[owner |-> "doctor", date |-> dt] : dt \in Dates}

\* The list a dashboard holds is an answer of its query on the store as it is.
Consistent(d) ==
    IF d = "nurse"
    THEN nurseAppointments \in NurseFetchResults(appointments)
    ELSE dashAppointments \in FetchResults(appointments, userProfile.doctor_id, selectedDate)

\* C16: every insert or update publishes a notification to each subscribed
\* dashboard, each notification leads to a re-fetch, and once writes have
\* stopped the list of every mounted dashboard eventually equals, and then
\* stays, the store's current answer to its query, in whatever order the
\* answers of overlapping fetches arrive.
C16_ListsConverge ==
    /\ \A ch \in AllChannels : (ch \in notices) ~> (ch \notin notices)
    /\ <>[](\A d \in Dashboards : mounted[d] => Consistent(d))

\* The doctor dashboard alone, which polls.
DoctorListConverges == <>[](mounted["doctor"] => Consistent("doctor"))

\* C17: when a dashboard unmounts its subscription is detached: no
\* subscription of an unmounted dashboard remains registered, and no
\* notification triggers a fetch from an unmounted dashboard.
C17_UnmountDetaches ==
    /\ [](\A ch \in channels : mounted[ch.owner])
    /\ [][\A ch \in AllChannels : Notified(ch) => mounted[ch.owner]]_vars

\* ------------------------------------------- every handler, with failures
\* The doctor whose day is followed.
OwnDoctor == {1}

\* Every handler run on its own, each of its data-store calls able to fail.
NextFailures ==
    \/ \E n \in Editors, new \in BOOLEAN, d \in OwnDoctor, dt \in FormDates,
          t \in ClinicTimes, fails \in CreateFailures :
           CreateAppointment(n, new, d, dt, t, fails)
    \/ \E n \in Editors, id \in 1..MaxAppts, d \in OwnDoctor, dt \in FormDates,
          t \in ClinicTimes, s \in AppointmentStatus, fails \in EditFailures :
           EditAppointment(n, id, d, dt, t, s, fails)
    \/ \E n \in Editors, id \in 1..MaxAppts, ok \in BOOLEAN : Cancel(n, id, ok)
    \/ \E ok \in BOOLEAN : fetchAppointments(ok)
    \/ \E id \in 1..MaxAppts, ok \in BOOLEAN : handleStartConsultation(id, ok)
    \/ \E ok \in BOOLEAN : handleCompleteConsultation(ok)
    \/ \E id \in 1..MaxAppts, ok \in BOOLEAN : handleMarkNoShow(id, ok)

SpecFailures == Init /\ [][NextFailures]_vars

\* -------------------------------------------- claims on failed store calls
\* C18: a failed data-store call in a handler (patient insert, conflict
\* query, appointment insert or update, status update) ends the handler with
\* the error notification and is followed by no write of that handler: the
\* appointments are as they were, a failed patient insert leaves no patient,
\* no write is left pending, and a failed conflict query in particular is
\* followed by no insert and no update.
C18_FailureEndsHandler ==
    [][/\ (toast' = "failed" /\ toast # "failed") =>
             /\ appointments' = appointments
             /\ pc' = pc
             /\ pending' = pending
       /\ fetchAppointments(FALSE) => dashAppointments' = dashAppointments
       /\ \A n \in Editors, new \in BOOLEAN, d \in OwnDoctor, dt \in FormDates,
             t \in ClinicTimes, fails \in {"patient", "query"} :
             CreateAppointment(n, new, d, dt, t, fails) =>
                 /\ toast' = "failed"
                 /\ appointments' = appointments
                 /\ fails = "patient" => patients' = patients
       /\ \A n \in Editors, id \in Ids(appointments), d \in OwnDoctor, dt \in FormDates,
             t \in ClinicTimes, s \in AppointmentStatus :
             EditAppointment(n, id, d, dt, t, s, "query") =>
                 toast' = "failed" /\ appointments' = appointments
       /\ \A n \in Editors, id \in Ids(appointments) :
             Cancel(n, id, FALSE) => toast' = "failed" /\ appointments' = appointments
       /\ \A id \in Ids(appointments) :
             (handleStartConsultation(id, FALSE) \/ handleMarkNoShow(id, FALSE))
                 => toast' = "failed" /\ appointments' = appointments
       /\ handleCompleteConsultation(FALSE)
             => toast' = "failed" /\ appointments' = appointments]_vars

\* C18 witness: a create submission in new-patient mode inserted its patient
\* and then failed at the conflict query or at the insert: the error is
\* shown and no appointment was written.
C18_Witness ==
    /\ toast = "failed"
    /\ patients = 1
    /\ appointments = <<>>

\* ------------------------------------------------ row-level access policies
\* The rows sent straight to the data store, and one more doctor to insert.
RlsRows == [doctor_id : Doctors, appointment_date : FormDates,
            appointment_time : {<<9, 0>>}, status : {"scheduled", "in_consultation"}]
NewDoctor == Cardinality(Doctors) + 1
Positions == {"doctor", "nurse"}

\* EXISTS (SELECT 1 FROM user_profiles WHERE id = auth.uid() AND position = 'nurse').
IsNurse(u) == profiles[u].position = "nurse"

\* doctor_id IN (SELECT doctor_id FROM user_profiles
\*               WHERE id = auth.uid() AND position = 'doctor').
IsOwnDoctor(u, row) ==
    profiles[u].position = "doctor" /\ row.doctor_id = profiles[u].doctor_id

\* "Nurses can create appointments": the only INSERT policy.
InsertAllowed(u, row) == IsNurse(u)

\* An update policy that lets any doctor through.
UpdateVisible_AnyDoctor(u, row) == IsNurse(u) \/ profiles[u].position = "doctor"

\* The two UPDATE policies, either of which lets a row through; their USING
\* expression selects the rows an update sees and checks the rows it writes.
UpdateVisible(u, row) == IsNurse(u) \/ IsOwnDoctor(u, row)

\* A doctors table with a policy FOR ALL.
DoctorsWriteAllowed_ForAll(u) == TRUE

\* doctors has row-level security enabled and a SELECT policy only.
DoctorsWriteAllowed(u) == FALSE

RlsFrame ==
    /\ UNCHANGED <<checked, pc, pending, toast, patients, uiVars>>
    /\ UNCHANGED docVars
    /\ UNCHANGED syncVars

\* INSERT INTO appointments by an authenticated user.
RlsInsertAppointment(u, row) ==
    /\ Len(appointments) < MaxAppts
    /\ IF InsertAllowed(u, row)
       THEN /\ appointments' = Append(appointments, row)
            /\ request' = [op |-> "insert", table |-> "appointments", user |-> u,
                           id |-> Len(appointments) + 1, outcome |-> "done"]
       ELSE /\ UNCHANGED appointments
            /\ request' = [op |-> "insert", table |-> "appointments", user |-> u,
                           id |-> 0, outcome |-> "error"]
    /\ UNCHANGED <<doctors, profiles>>
    /\ RlsFrame

\* UPDATE appointments SET ... WHERE id = ... by an authenticated user: a row
\* the policies hide is not updated, a new row they reject is an error.
RlsUpdateAppointment(u, id, row) ==
    /\ id \in Ids(appointments)
    /\ IF ~UpdateVisible(u, appointments[id])
       THEN /\ UNCHANGED appointments
            /\ request' = [op |-> "update", table |-> "appointments", user |-> u,
                           id |-> id, outcome |-> "no rows"]
       ELSE IF ~UpdateVisible(u, row)
       THEN /\ UNCHANGED appointments
            /\ request' = [op |-> "update", table |-> "appointments", user |-> u,
                           id |-> id, outcome |-> "error"]
       ELSE /\ appointments' = [appointments EXCEPT ![id] = row]
            /\ request' = [op |-> "update", table |-> "appointments", user |-> u,
                           id |-> id, outcome |-> "done"]
    /\ UNCHANGED <<doctors, profiles>>
    /\ RlsFrame

\* INSERT, UPDATE or DELETE on doctors by an authenticated user.
RlsWriteDoctors(u, op, d) ==
    /\ IF DoctorsWriteAllowed(u)
       THEN /\ doctors' = IF op = "insert" THEN doctors \cup {NewDoctor}
                          ELSE IF op = "delete" THEN doctors \ {d}
                          ELSE doctors
            /\ request' = [op |-> op, table |-> "doctors", user |-> u, id |-> d,
                           outcome |-> "done"]
       ELSE /\ UNCHANGED doctors
            /\ request' = [op |-> op, table |-> "doctors", user |-> u, id |-> d,
                           outcome |-> IF op = "insert" THEN "error" ELSE "no rows"]
    /\ UNCHANGED <<appointments, profiles>>
    /\ RlsFrame

\* "Users can update their own profile": USING (id = auth.uid()), any column.
RlsUpdateOwnProfile(u, position, doctorId) ==
    /\ profiles' = [profiles EXCEPT ![u] = [position |-> position, doctor_id |-> doctorId]]
    /\ request' = [op |-> "update", table |-> "user_profiles", user |-> u, id |-> 0,
                   outcome |-> "done"]
    /\ UNCHANGED <<appointments, doctors>>
    /\ RlsFrame

NextRls ==
    \/ \E u \in Users, row \in RlsRows : RlsInsertAppointment(u, row)
    \/ \E u \in Users, id \in 1..MaxAppts, row \in RlsRows : RlsUpdateAppointment(u, id, row)
    \/ \E u \in Users, op \in {"insert", "update", "delete"}, d \in Doctors :
           RlsWriteDoctors(u, op, d)
    \/ \E u \in Users, position \in Positions, d \in Doctors :
           RlsUpdateOwnProfile(u, position, d)

SpecRls == Init /\ [][NextRls]_vars

\* C19: under the row-level policies an insert into appointments succeeds
\* only for a user whose profile position is nurse, and an update of an
\* appointment succeeds only for such a nurse or for a doctor whose profile
\* doctor_id equals the doctor_id of the appointment.
C19_WritesFollowPolicies ==
    [][/\ Len(appointments') > Len(appointments) =>
            /\ request'.op = "insert" /\ request'.table = "appointments"
            /\ profiles[request'.user].position = "nurse"
       /\ \A id \in Ids(appointments) :
            appointments'[id] # appointments[id] =>
                /\ request'.op = "update" /\ request'.id = id
                /\ \/ profiles[request'.user].position = "nurse"
                   \/ /\ profiles[request'.user].position = "doctor"
                      /\ profiles[request'.user].doctor_id = appointments[id].doctor_id
       /\ (request'.table = "appointments" /\ request'.outcome = "done"
             /\ request'.op = "insert") => profiles[request'.user].position = "nurse"]_vars

\* A doctor's update of another doctor's appointment touched no row of a
\* store that nurses filled, one appointment of which is in consultation.
C19_Witness ==
    /\ request.op = "update" /\ request.table = "appointments"
    /\ request.outcome = "no rows"
    /\ profiles[request.user].position = "doctor"
    /\ Len(appointments) = 2
    /\ appointments[request.id].doctor_id # profiles[request.user].doctor_id
    /\ \E id \in Ids(appointments) : appointments[id].status = "in_consultation"

\* C20: no insert, update or delete of an authenticated user changes the
\* doctors collection.
C20_DoctorsReadOnly ==
    [][/\ doctors' = doctors
       /\ request'.table = "doctors" => request'.outcome # "done"]_vars

\* A user's insert into doctors was rejected and the collection is as seeded.
C20_Witness ==
    /\ request.op = "insert" /\ request.table = "doctors"
    /\ request.outcome = "error"
    /\ doctors = Doctors

\* ------------------------------------------------- the reschedule webhook
\* What the POST to the webhook comes back with: an HTTP status, or the
\* request throws (network error).
Throws == 0
Responses == {Throws, 200, 204, 302, 404, 500}

\* response.ok: a status in the range 200-299.
ResponseOk(status) == status >= 200 /\ status <= 299

\* handleRequestReschedule that takes every answer for a success.
handleRequestReschedule_IgnoresStatus(n, id, hasNames, status) ==
    /\ pc[n] = "idle"
    /\ id \in Ids(appointments)
    /\ IF ~hasNames
       THEN /\ toast' = "failed"
            /\ UNCHANGED webhook
       ELSE /\ webhook' = [status |-> status]
            /\ toast' = IF status # Throws THEN "success" ELSE "failed"
    /\ UNCHANGED <<appointments, checked, pc, pending>>
    /\ UNCHANGED docVars
    /\ UNCHANGED <<syncVars, dbVars>>
    /\ UNCHANGED <<selectedAppointment, editForm, isSubmitting, showCreateForm, showEditForm>>

\* Details modal, handleRequestReschedule on the appointment shown: without
\* the joined patient or doctor it returns with an error message; otherwise
\* it posts the payload, and a thrown request or a response that is not ok is
\* caught and reported as a failure.
handleRequestReschedule(n, id, hasNames, status) ==
    /\ pc[n] = "idle"
    /\ id \in Ids(appointments)
    /\ IF ~hasNames
       THEN /\ toast' = "failed"
            /\ UNCHANGED webhook
       ELSE /\ webhook' = [status |-> status]
            /\ toast' = IF status # Throws /\ ResponseOk(status) THEN "success" ELSE "failed"
    /\ UNCHANGED <<appointments, checked, pc, pending>>
    /\ UNCHANGED docVars
    /\ UNCHANGED <<syncVars, dbVars>>
    /\ UNCHANGED <<selectedAppointment, editForm, isSubmitting, showCreateForm, showEditForm>>

\* The nurse books, cancels, and asks patients to reschedule.
NextReschedule ==
    \/ \E n \in Editors, new \in ExistingPatient, d \in Doctors, dt \in Dates,
          t \in ClinicTimes, fails \in WriteFailures :
           CreateAppointment(n, new, d, dt, t, fails)
    \/ \E n \in Editors, id \in 1..MaxAppts, ok \in BOOLEAN : Cancel(n, id, ok)
    \/ \E n \in Editors, id \in 1..MaxAppts, hasNames \in BOOLEAN, status \in Responses :
           handleRequestReschedule(n, id, hasNames, status)

SpecReschedule == Init /\ [][NextReschedule]_vars

\* C21: a Request Reschedule ends in the failure notification whenever the
\* webhook's response is not 2xx or the request throws, and in the success
\* notification only for a 2xx response; in both outcomes, and when no
\* request is sent, every stored appointment is left as it was.
C21_RescheduleOutcome ==
    [][\A n \in Editors, id \in Ids(appointments), hasNames \in BOOLEAN, status \in Responses :
          handleRequestReschedule(n, id, hasNames, status) =>
              /\ toast' \in {"success", "failed"}
              /\ (status = Throws \/ status < 200 \/ status > 299) => toast' = "failed"
              /\ toast' = "success" => (hasNames /\ status \in 200..299)
              /\ hasNames => webhook' = [status |-> status]
              /\ appointments' = appointments]_vars

\* C21 witness: a reschedule request for a scheduled appointment was answered
\* 404 and reported as failed; the appointment is still scheduled.
C21_Witness ==
    /\ webhook = [status |-> 404]
    /\ toast = "failed"
    /\ \E id \in Ids(appointments) : appointments[id].status = "scheduled"

\* ------------------------------------------------- the dialogs of the forms
\* The New Appointment button: setShowCreateForm(true).
openCreateForm(n) ==
    /\ pc[n] = "idle"
    /\ ~showCreateForm[n]
    /\ showCreateForm' = [showCreateForm EXCEPT ![n] = TRUE]
    /\ UNCHANGED <<appointments, checked, pc, pending, toast>>
    /\ UNCHANGED docVars
    /\ UNCHANGED <<syncVars, dbVars>>
    /\ UNCHANGED <<webhook, selectedAppointment, editForm, isSubmitting, showEditForm>>

\* A click on row j of the list and Edit Appointment in the details modal:
\* handleAppointmentClick and handleEdit set selectedAppointment to the list's
\* row and open the edit form, whose effect copies the row's fields.
handleEdit(n, j) ==
    /\ pc[n] = "idle"
    /\ ~showEditForm[n]
    /\ j \in 1..Len(nurseAppointments)
    /\ selectedAppointment' = [selectedAppointment EXCEPT ![n] = nurseAppointments[j]]
    /\ showEditForm' = [showEditForm EXCEPT ![n] = TRUE]
    /\ editForm' = [editForm EXCEPT ![n] = FormFields(nurseAppointments[j])]
    /\ UNCHANGED <<appointments, checked, pc, pending, toast>>
    /\ UNCHANGED docVars
    /\ UNCHANGED <<syncVars, dbVars>>
    /\ UNCHANGED <<webhook, isSubmitting, showCreateForm>>

\* The edit form's time input: setTime.
setTime(n, time) ==
    /\ pc[n] = "idle"
    /\ showEditForm[n]
    /\ editForm[n].appointment_time # time
    /\ editForm' = [editForm EXCEPT ![n].appointment_time = time]
    /\ UNCHANGED <<appointments, checked, pc, pending, toast>>
    /\ UNCHANGED docVars
    /\ UNCHANGED <<syncVars, dbVars>>
    /\ UNCHANGED <<webhook, selectedAppointment, isSubmitting, showCreateForm, showEditForm>>

\* handleSubmit of a form with a required field left empty: the message, and
\* a return (before setIsSubmitting(true), or after setIsSubmitting(false)).
SubmitInvalid(n, form) ==
    /\ pc[n] = "idle"
    /\ IF form = "create" THEN showCreateForm[n] ELSE showEditForm[n]
    /\ toast' = "invalid"
    /\ isSubmitting' = [isSubmitting EXCEPT ![n][form] = FALSE]
    /\ UNCHANGED <<appointments, checked, pc, pending>>
    /\ UNCHANGED docVars
    /\ UNCHANGED <<syncVars, dbVars>>
    /\ UNCHANGED dialogVars

\* The nurse at the forms of the dashboard.
NextForms ==
    \/ \E n \in Editors : openCreateForm(n)
    \/ \E n \in Editors, t \in ClinicTimes, fails \in SubmitFailures :
           showCreateForm[n] /\ CreateSubmit(n, FALSE, 1, 1, t, fails)
    \/ \E n \in Editors, ok \in BOOLEAN : CreateInsert(n, ok)
    \/ \E n \in Editors, j \in 1..MaxAppts : handleEdit(n, j)
    \/ \E n \in Editors, t \in ClinicTimes : setTime(n, t)
    \/ \E n \in Editors, form \in {"create", "edit"} : SubmitInvalid(n, form)
    \/ \E n \in Editors, ok \in BOOLEAN :
           /\ showEditForm[n]
           /\ EditSubmit(n, selectedAppointment[n].id, editForm[n].doctor_id,
                         editForm[n].appointment_date, editForm[n].appointment_time,
                         editForm[n].status, ok)
    \/ \E n \in Editors, ok \in BOOLEAN : EditUpdate(n, ok)
    \/ nurseFetchAppointments(TRUE)

SpecForms == Init /\ [][NextForms]_vars

\* The nurse's edit form open beside the doctor's dashboard.
NextOpenEdit ==
    \/ \E n \in Editors, t \in ClinicTimes :
           CreateAppointment(n, FALSE, 1, 1, t, "none")
    \/ nurseFetchAppointments(TRUE)
    \/ \E n \in Editors, j \in 1..MaxAppts : handleEdit(n, j)
    \/ \E n \in Editors :
           /\ showEditForm[n]
           /\ EditSubmit(n, selectedAppointment[n].id, editForm[n].doctor_id,
                         editForm[n].appointment_date, editForm[n].appointment_time,
                         editForm[n].status, TRUE)
    \/ \E n \in Editors : EditUpdate(n, TRUE)
    \/ fetchAppointments(TRUE)
    \/ \E id \in 1..MaxAppts : handleStartConsultation(id, TRUE)
    \/ handleCompleteConsultation(TRUE)
    \/ \E id \in 1..MaxAppts : handleMarkNoShow(id, TRUE)

SpecOpenEdit == Init /\ [][NextOpenEdit]_vars

\* ------------------------------------ claims on the edit form left open
\* C22: the edit form writes the status it captured when it was opened: the
\* form's status is the one of the list row it was opened on, whatever the
\* doctor does to the appointment meanwhile, and saving writes that status
\* over the stored one and reports success.
C22_EditWritesCapturedStatus ==
    /\ [](\A n \in Editors :
             showEditForm[n] => editForm[n].status = selectedAppointment[n].status)
    /\ [][\A n \in Editors :
             (pc[n] = "updating" /\ pc'[n] = "idle") =>
                 /\ toast' = "success"
                 /\ pending[n].id = selectedAppointment[n].id
                 /\ appointments'[selectedAppointment[n].id].status =
                        selectedAppointment[n].status]_vars

\* C22 witness: the form was opened on a scheduled appointment, the doctor
\* started the consultation and the doctor dashboard shows it in
\* consultation; the nurse's save succeeded and the store says scheduled again.
C22_Witness ==
    \E n \in Editors :
        /\ pc[n] = "idle"
        /\ ~showEditForm[n]
        /\ toast = "success"
        /\ selectedAppointment[n].id \in Ids(appointments)
        /\ selectedAppointment[n].status = "scheduled"
        /\ appointments[selectedAppointment[n].id].status = "scheduled"
        /\ ListedStatus(selectedAppointment[n].id) = "in_consultation"

\* --------------------------------------- claims on the spacing of the day
\* C23: with every operation run one at a time, no two distinct appointments
\* of the same doctor and date that both have status scheduled or
\* in_consultation are less than 30 minutes apart.
C23_NoTwoActiveWithin30 ==
    \A i, j \in Ids(appointments) :
        (Active(appointments[i]) /\ Active(appointments[j])) => ~TooClose(i, j)

\* C24: each doctor has at most one appointment with status in_consultation
\* on any given date.
C24_OneInConsultationPerDoctorAndDate ==
    \A i, j \in Ids(appointments) :
        ( /\ appointments[i].status = "in_consultation"
          /\ appointments[j].status = "in_consultation"
          /\ appointments[i].doctor_id = appointments[j].doctor_id
          /\ appointments[i].appointment_date = appointments[j].appointment_date )
            => i = j

\* ------------------------------------------- the doctor changes the date
\* The time every appointment of this day is booked at.
NineOClock == {<<9, 0>>}

\* The calendar's onSelect with the fetch left in flight: the effect on
\* [userProfile, selectedDate] runs again, calls fetchAppointments for the new
\* date, subscribes once more (the subscription of the earlier run is not
\* removed and its callback keeps the date of its render), and replaces the
\* interval by one that polls for the new date.
SyncSelectDate(date) ==
    /\ mounted["doctor"]
    /\ date # selectedDate
    /\ selectedDate' = date
    /\ channels' = channels \cup {[owner |-> "doctor", date |-> date]}
    /\ \E result \in FetchResults(appointments, userProfile.doctor_id, date) :
           inflight' = [inflight EXCEPT !["doctor"] = @ \cup {result}]
    /\ UNCHANGED <<appointments, checked, pc, pending, toast, dbVars, uiVars>>
    /\ UNCHANGED <<userProfile, dashAppointments>>
    /\ UNCHANGED <<nurseAppointments, mounted, notices, writes>>

NextDates ==
    \/ \E d \in OwnDoctor, dt \in Dates, t \in NineOClock : SyncCreate(d, dt, t)
    \/ \E id \in 1..MaxAppts : SyncCancel(id)
    \/ \E dt \in Dates : SyncSelectDate(dt)
    \/ \E ch \in channels : Notified(ch)
    \/ Poll
    \/ \E d \in Dashboards : \E result \in inflight[d] : FetchReturns(d, result)

SpecDates == Init /\ [][NextDates]_vars

\* C25: once the doctor dashboard's fetches have settled (no answer in
\* flight, no notification undelivered), its list holds only appointments
\* whose date is the selected date.
C25_ListOfSelectedDate ==
    ( /\ inflight["doctor"] = {}
      /\ \A ch \in notices : ch.owner # "doctor" )
        => \A j \in 1..Len(dashAppointments) :
              appointments[dashAppointments[j].id].appointment_date = selectedDate

\* ------------------------------------------- claims on the new patient
\* C26: a create submission in new-patient mode that the conflict check
\* rejects, or whose appointment insert fails, changes nothing in the store:
\* no appointment and no patient row is added.
C26_RejectedCreateChangesNothing ==
    [][\A n \in Editors, d \in OwnDoctor, dt \in FormDates, t \in ClinicTimes,
          fails \in {"none", "insert"} :
          (CreateAppointment(n, TRUE, d, dt, t, fails) /\ toast' # "success")
              => (patients' = patients /\ appointments' = appointments)]_vars

\* ------------------------------------- claims on edits of the status only
\* C27: the edit form's conflict check runs on the submitted doctor, date and
\* time whatever the submitted status is: an edit that keeps the
\* appointment's doctor, date and time and sets its status to cancelled,
\* completed or no_show is rejected with the conflict message, and writes
\* nothing, when another active appointment of that doctor and date lies
\* within 30 minutes of the appointment's time; and it is written otherwise.
C27_StatusOnlyEditIsChecked ==
    [][\A n \in Editors, id \in Ids(appointments), s \in Terminal :
          EditAppointment(n, id, appointments[id].doctor_id,
                          appointments[id].appointment_date,
                          appointments[id].appointment_time, s, "none") =>
              IF OtherActiveWithin30(appointments, id, appointments[id].doctor_id,
                                     appointments[id].appointment_date,
                                     appointments[id].appointment_time)
              THEN toast' = "conflict" /\ appointments' = appointments
              ELSE toast' = "success" /\ appointments'[id].status = s]_vars

\* C27 witness: two active appointments of one doctor and date at the same
\* time (the doctor started one from a list fetched before it was replaced),
\* and an edit of one of them has just been rejected.
C27_Witness ==
    /\ Len(appointments) = 2
    /\ TooClose(1, 2)
    /\ Active(appointments[1]) /\ Active(appointments[2])
    /\ toast = "conflict"

\* ------------------------------------------ claims on the submit button
\* C28: every create or edit submission ends with isSubmitting false on
\* every path (validation failure, conflict, data-store error, success):
\* whenever no handleSubmit of a session is under way, isSubmitting of both
\* its forms is false; and a submission closes its dialog on the successful
\* path only.
C28_SubmitButtonReleased ==
    /\ [](\A n \in Editors :
             pc[n] = "idle" => (~isSubmitting[n].create /\ ~isSubmitting[n].edit))
    /\ [][\A n \in Editors :
             ( \/ showCreateForm[n] /\ ~showCreateForm'[n]
               \/ showEditForm[n] /\ ~showEditForm'[n] )
                 => (pc[n] # "idle" /\ pc'[n] = "idle" /\ toast' = "success")]_vars

\* C28 witness: the appointment insert of a create submission failed: the
\* error is shown, the dialog is still open and its button is enabled again,
\* beside an edit dialog left open by a rejected edit.
C28_Witness ==
    \E n \in Editors :
        /\ pc[n] = "idle"
        /\ toast = "failed"
        /\ showCreateForm[n] /\ showEditForm[n]
        /\ ~isSubmitting[n].create /\ ~isSubmitting[n].edit
        /\ Len(appointments) = 1

\* ------------------------------------------------- a full day's queue
\* Rows of the store on a day with more patients than the queue shows.
QueueAppts == 6

\* The time of each row of that day, not in the order of the ids.
QueueTime(i) ==
    IF i = 1 THEN <<9, 20>> ELSE IF i = 2 THEN <<8, 50>> ELSE IF i = 3 THEN <<9, 50>>
    ELSE IF i = 4 THEN <<9, 0>> ELSE IF i = 5 THEN <<9, 35>> ELSE <<9, 15>>

\* The stores of that day: every appointment is the logged-in doctor's and
\* scheduled, but for at most one of another status and at most one of the
\* other doctor; all on the selected date.
QueueStores ==
    {[i \in 1..QueueAppts |->
         [doctor_id |-> IF i = other THEN 2 ELSE 1,
          appointment_date |-> 1,
          appointment_time |-> QueueTime(i),
          status |-> IF i = odd THEN s ELSE "scheduled"]] :
        other \in 0..QueueAppts, odd \in 0..QueueAppts, s \in AppointmentStatus}

InitQueue ==
    /\ appointments \in QueueStores
    /\ checked = NoCall
    /\ IdleSessions

\* The dashboard fetches and organises that day.
NextQueue == \E ok \in BOOLEAN : fetchAppointments(ok)

SpecQueue == InitQueue /\ [][NextQueue]_vars

\* The positions of the fetched list that hold a scheduled row.
ScheduledAt(list) == {p \in 1..Len(list) : list[p].status = "scheduled"}

\* C29: after each re-organisation the Next Patients queue holds only rows
\* listed as scheduled, at most five of them, and exactly the first five
\* scheduled rows of the fetched list in the list's order; no row of the
\* fetched list is cancelled or no_show; and right after a fetch the queue's
\* appointments are the logged-in doctor's scheduled ones of the selected
\* date in ascending time order, the earliest five of them.
C29_QueueIsFirstFiveScheduled ==
    /\ [](/\ Len(nextAppointments) <= 5
          /\ \A j \in 1..Len(dashAppointments) :
                dashAppointments[j].status \notin {"cancelled", "no_show"}
          /\ \A j \in 1..Len(nextAppointments) : nextAppointments[j].status = "scheduled"
          /\ \A p \in ScheduledAt(dashAppointments) :
                LET before == Cardinality({q \in ScheduledAt(dashAppointments) : q < p})
                IN IF before < 5
                   THEN nextAppointments[before + 1] = dashAppointments[p]
                   ELSE dashAppointments[p].id \notin QueueIds
          /\ Len(nextAppointments) <= Cardinality(ScheduledAt(dashAppointments)))
    /\ [][fetchAppointments(TRUE) =>
             /\ \A j \in 1..Len(nextAppointments') :
                   LET apt == appointments[nextAppointments'[j].id]
                   IN /\ apt.doctor_id = userProfile.doctor_id
                      /\ apt.appointment_date = selectedDate
                      /\ apt.status = "scheduled"
             /\ \A a, b \in 1..Len(nextAppointments') :
                   a < b => TimeLeq(appointments[nextAppointments'[a].id].appointment_time,
                                    appointments[nextAppointments'[b].id].appointment_time)
             /\ \A i \in Ids(appointments) :
                   ( /\ appointments[i].doctor_id = userProfile.doctor_id
                     /\ appointments[i].appointment_date = selectedDate
                     /\ appointments[i].status = "scheduled"
                     /\ i \notin QueueIds' )
                       => /\ Len(nextAppointments') = 5
                          /\ \A q \in QueueIds' :
                                TimeLeq(appointments[q].appointment_time,
                                        appointments[i].appointment_time)]_vars

\* C29 witness: six appointments of the doctor are scheduled in the store
\* and in the fetched list; the queue shows five, the latest is left out.
C29_Witness ==
    /\ Len(dashAppointments) = 6
    /\ \A j \in 1..6 : dashAppointments[j].status = "scheduled"
    /\ Len(nextAppointments) = 5
    /\ 3 \notin QueueIds

\* ------------------------------------------------ claims on the insert
\* C30: every appointment inserted by the create form enters the store with
\* status scheduled, and no submission inserts more than one row: a step
\* that adds to the store adds exactly one row, the scheduled row of the one
\* submission that ends in that step, and that submission has nothing left
\* to write.
C30_OneScheduledRowPerSubmission ==
    [][Len(appointments') # Len(appointments) =>
          /\ Len(appointments') = Len(appointments) + 1
          /\ SubSeq(appointments', 1, Len(appointments)) = appointments
          /\ appointments'[Len(appointments')].status = "scheduled"
          /\ \E n \in Nurses :
                /\ pc[n] = "inserting" /\ pc'[n] = "idle"
                /\ pending'[n] = NoWrite
                /\ appointments'[Len(appointments')] = pending[n]
                /\ \A m \in Nurses \ {n} : pc'[m] = pc[m] /\ pending'[m] = pending[m]]_vars

\* C30 witness: one submission has inserted its scheduled row and is done,
\* while the other session's insert is still on its way.
C30_Witness ==
    /\ Len(appointments) = 1
    /\ appointments[1].status = "scheduled"
    /\ toast = "success"
    /\ \E n, m \in Nurses : pc[n] = "idle" /\ pending[n] = NoWrite /\ pc[m] = "inserting"

====
